---- MODULE Spec2Model ----
(***************************************************************************)
(* Model of the igc-rs record decoders: Record::parse_line (the            *)
(* dispatcher), CRecordDeclaration::parse, CRecordTurnpoint::parse,        *)
(* IRecord::parse and IRecord's Display implementation.                    *)
(*                                                                         *)
(* A line (&str) is a sequence of one-character strings; every character   *)
(* of the model's alphabet is ASCII, so byte offsets and character offsets *)
(* coincide.  A Rust panic (a failed assert!, an out-of-range index or     *)
(* slice) is the outcome "Panic"; Err(..) is "Err"; Ok(..) is "Ok".        *)
(***************************************************************************)
EXTENDS Integers, Sequences, FiniteSets, TLC

VARIABLES line, irec, op, pc, result, out

vars == <<line, irec, op, pc, result, out>>

---------------------------------------------------------------------------
(* Bounds of the model and constants of the program *)

\* longest free-text trailer appended to a line
MaxNameLen == 2

\* largest number of extensions in a constructed IRecord
MaxExt == 3

\* CRecordDeclaration::parse: assert!(line.len() >= 25)
DeclMinLen == 25

\* CRecordTurnpoint::parse: assert!(line.len() >= 18)
TurnMinLen == 18

\* u16::MAX and u8::MAX, the ranges of task_id and turnpoint_count
U16Max == 65535

U8Max == 255

---------------------------------------------------------------------------
(* Strings *)

DigitChars == <<"0", "1", "2", "3", "4", "5", "6", "7", "8", "9">>

IsDigit(c) == \E i \in 1..10 : DigitChars[i] = c

DigitVal(c) == (CHOOSE i \in 1..10 : DigitChars[i] = c) - 1

AllDigits(s) == \A i \in 1..Len(s) : IsDigit(s[i])

\* &line[a..b] with 0-based, end-exclusive offsets; the caller guards a <= b <= len
Slice(s, a, b) == SubSeq(s, a + 1, b)

\* &line[a..]
SliceFrom(s, a) == SubSeq(s, a + 1, Len(s))

\* positional value of a string of decimal digits, accumulated left to right
RECURSIVE DigitsValue(_)
DigitsValue(s) ==
    IF Len(s) = 0 THEN 0
    ELSE 10 * DigitsValue(SubSeq(s, 1, Len(s) - 1)) + DigitVal(s[Len(s)])

NoneStr == [some |-> FALSE, val |-> <<>>]

SomeStr(s) == [some |-> TRUE, val |-> s]

---------------------------------------------------------------------------
(* str::parse::<u16>() / str::parse::<u8>() as called by the decoders:     *)
(* an optional leading '+', then one or more decimal digits, the value not *)
(* above the type's maximum.  A '-' is an invalid digit for an unsigned    *)
(* type.                                                                   *)

ParseUnsigned(s, max) ==
    LET digits == IF Len(s) > 0 /\ s[1] = "+" THEN Tail(s) ELSE s
    IN  IF Len(s) = 0 \/ Len(digits) = 0 \/ ~AllDigits(digits)
        THEN [ok |-> FALSE, val |-> 0]
        ELSE IF DigitsValue(digits) > max THEN [ok |-> FALSE, val |-> 0]
        ELSE [ok |-> TRUE, val |-> DigitsValue(digits)]

---------------------------------------------------------------------------
(* Primitive parsers (crate::util), called on exact-width slices *)

NoDate == [day |-> 0, month |-> 0, year |-> 0]

NoTime == [hours |-> 0, minutes |-> 0, seconds |-> 0]

NoCoord == [degrees |-> 0, minute_thousandths |-> 0, sign |-> "-"]

NoPosition == [lat |-> NoCoord, lon |-> NoCoord]

\* DDMMYY, the year counted from 2000
Date_parse(s) ==
    IF Len(s) = 6 /\ AllDigits(s)
    THEN [ok |-> TRUE,
          val |-> [day |-> DigitsValue(Slice(s, 0, 2)),
                   month |-> DigitsValue(Slice(s, 2, 4)),
                   year |-> 2000 + DigitsValue(Slice(s, 4, 6))]]
    ELSE [ok |-> FALSE, val |-> NoDate]

\* HHMMSS
Time_parse(s) ==
    IF Len(s) = 6 /\ AllDigits(s)
    THEN [ok |-> TRUE,
          val |-> [hours |-> DigitsValue(Slice(s, 0, 2)),
                   minutes |-> DigitsValue(Slice(s, 2, 4)),
                   seconds |-> DigitsValue(Slice(s, 4, 6))]]
    ELSE [ok |-> FALSE, val |-> NoTime]

\* DDMMmmm[NS] DDDMMmmm[EW]
RawPosition_parse_lat_lon(s) ==
    IF /\ Len(s) = 17
       /\ AllDigits(Slice(s, 0, 7))
       /\ s[8] \in {"N", "S"}
       /\ AllDigits(Slice(s, 8, 16))
       /\ s[17] \in {"E", "W"}
    THEN [ok |-> TRUE,
          val |-> [lat |-> [degrees |-> DigitsValue(Slice(s, 0, 2)),
                            minute_thousandths |-> DigitsValue(Slice(s, 2, 7)),
                            sign |-> s[8]],
                   lon |-> [degrees |-> DigitsValue(Slice(s, 8, 11)),
                            minute_thousandths |-> DigitsValue(Slice(s, 11, 16)),
                            sign |-> s[17]]]]
    ELSE [ok |-> FALSE, val |-> NoPosition]

---------------------------------------------------------------------------
(* c_record.rs *)

NoDecl == [date |-> NoDate, time |-> NoTime, flight_date |-> NoDate,
           task_id |-> 0, turnpoint_count |-> 0, task_name |-> NoneStr]

NoTurn == [position |-> NoPosition, turnpoint_name |-> NoneStr]

Panic(r) == [status |-> "Panic", err |-> "", rec |-> r]

Err(e, r) == [status |-> "Err", err |-> e, rec |-> r]

Ok(r) == [status |-> "Ok", err |-> "", rec |-> r]

\* the task identifier read one character early
TaskIdField_Early(l) == ParseUnsigned(Slice(l, 18, 22), U16Max)

\* line[19..23].parse::<u16>()
TaskIdField(l) == ParseUnsigned(Slice(l, 19, 23), U16Max)

\* line[23..25].parse::<u8>()
TurnpointCountField(l) == ParseUnsigned(Slice(l, 23, 25), U8Max)

\* the trailer taken as present from the minimum length on
TaskNameOf_AtLeast(l) == IF Len(l) >= DeclMinLen THEN SomeStr(SliceFrom(l, DeclMinLen)) ELSE NoneStr

\* if line.len() > 25 { Some(&line[25..]) } else { None }
TaskNameOf(l) == IF Len(l) > DeclMinLen THEN SomeStr(SliceFrom(l, DeclMinLen)) ELSE NoneStr

\* if line.len() > 18 { Some(&line[18..]) } else { None }
TurnpointNameOf(l) == IF Len(l) > TurnMinLen THEN SomeStr(SliceFrom(l, TurnMinLen)) ELSE NoneStr

CRecordDeclaration_parse(l) ==
    IF ~(Len(l) >= DeclMinLen) THEN Panic(NoDecl)
    ELSE IF ~(l[1] = "C") THEN Panic(NoDecl)
    ELSE LET date == Date_parse(Slice(l, 1, 7))
             time == Time_parse(Slice(l, 7, 13))
             flight_date == Date_parse(Slice(l, 13, 19))
             task_id == TaskIdField(l)
             turnpoint_count == TurnpointCountField(l)
         IN  IF ~date.ok THEN Err("MalformedPrimitive", NoDecl)
             ELSE IF ~time.ok THEN Err("MalformedPrimitive", NoDecl)
             ELSE IF ~flight_date.ok THEN Err("MalformedPrimitive", NoDecl)
             ELSE IF ~task_id.ok THEN Err("MalformedNumericField", NoDecl)
             ELSE IF ~turnpoint_count.ok THEN Err("MalformedNumericField", NoDecl)
             ELSE Ok([date |-> date.val, time |-> time.val,
                      flight_date |-> flight_date.val,
                      task_id |-> task_id.val,
                      turnpoint_count |-> turnpoint_count.val,
                      task_name |-> TaskNameOf(l)])

CRecordTurnpoint_parse(l) ==
    IF ~(Len(l) >= TurnMinLen) THEN Panic(NoTurn)
    ELSE IF ~(l[1] = "C") THEN Panic(NoTurn)
    ELSE LET position == RawPosition_parse_lat_lon(Slice(l, 1, 18))
         IN  IF ~position.ok THEN Err("MalformedPrimitive", NoTurn)
             ELSE Ok([position |-> position.val,
                      turnpoint_name |-> TurnpointNameOf(l)])

---------------------------------------------------------------------------
(* records/extension.rs (ExtensionDefRecord, Extension) and i_record.rs *)

NoIRec == [num_extensions |-> 0, extensions |-> <<>>]

\* {:02}: decimal, zero-padded to at least two digits
RECURSIVE Decimal(_)
Decimal(n) == IF n < 10 THEN <<DigitChars[n + 1]>>
              ELSE Decimal(n \div 10) \o <<DigitChars[(n % 10) + 1]>>

Pad2(n) == IF n < 10 THEN <<"0">> \o Decimal(n) ELSE Decimal(n)

\* one 7-character sub-field: start (2 digits), end (2 digits), mnemonic (3)
Extension_parse(s) ==
    IF AllDigits(Slice(s, 0, 2)) /\ AllDigits(Slice(s, 2, 4))
    THEN [ok |-> TRUE,
          val |-> [mnemonic |-> Slice(s, 4, 7),
                   start_byte |-> DigitsValue(Slice(s, 0, 2)),
                   end_byte |-> DigitsValue(Slice(s, 2, 4))]]
    ELSE [ok |-> FALSE,
          val |-> [mnemonic |-> <<>>, start_byte |-> 0, end_byte |-> 0]]

Extension_fmt(e) == Pad2(e.start_byte) \o Pad2(e.end_byte) \o e.mnemonic

\* the count's two digits at [1,3), then count sub-fields of 7 characters
ExtensionDefRecord_parse(l) ==
    IF Len(l) < 3 \/ ~AllDigits(Slice(l, 1, 3)) THEN Err("MalformedNumericField", NoIRec)
    ELSE LET n == DigitsValue(Slice(l, 1, 3))
             sub(i) == Extension_parse(Slice(l, 3 + 7 * (i - 1), 3 + 7 * i))
         IN  IF Len(l) < 3 + 7 * n THEN Err("LineTooShort", NoIRec)
             ELSE IF \E i \in 1..n : ~sub(i).ok THEN Err("MalformedNumericField", NoIRec)
             ELSE Ok([num_extensions |-> n,
                      extensions |-> [i \in 1..n |-> sub(i).val]])

RECURSIVE FmtExtensions(_)
FmtExtensions(es) ==
    IF Len(es) = 0 THEN <<>>
    ELSE Extension_fmt(Head(es)) \o FmtExtensions(Tail(es))

ExtensionDefRecord_fmt(r, record_type) ==
    <<record_type>> \o Pad2(r.num_extensions) \o FmtExtensions(r.extensions)

IRecord_parse(l) ==
    IF Len(l) = 0 THEN Panic(NoIRec)
    ELSE LET first_byte == l[1]
         IN  IF ~(first_byte = "I") THEN Panic(NoIRec)
             ELSE ExtensionDefRecord_parse(l)

\* the tag of the J record, whose file mirrors i_record.rs
IRecord_fmt_J(r) == ExtensionDefRecord_fmt(r, "J")

IRecord_fmt(r) == ExtensionDefRecord_fmt(r, "I")

---------------------------------------------------------------------------
(* records/mod.rs *)

\* the variants of enum Record
RecordVariants == {"A", "B", "CDeclaration", "CTurnpoint", "D", "E", "Unrecognised"}

\* what a decoder of a_record, b_record, d_record or e_record can return
ExternalOutcomes == {"Ok", "Err", "Panic"}

Dispatch(status, err, variant, invoked, decl, turn) ==
    [status |-> status, err |-> err, variant |-> variant, invoked |-> invoked,
     decl |-> decl, turn |-> turn]

External(tag, outcome) ==
    Dispatch(outcome, IF outcome = "Err" THEN "External" ELSE "",
             IF outcome = "Ok" THEN tag ELSE "", <<tag>>, NoDecl, NoTurn)

\* the southern hemisphere forgotten
IsTurnpointByte_NorthOnly(ninth) == ninth = "N"

\* ninth == b'N' || ninth == b'S'
IsTurnpointByte(ninth) == ninth = "N" \/ ninth = "S"

\* the arm of the match for b'C'
DispatchC(l) ==
    IF Len(l) < 9 THEN Dispatch("Panic", "", "", <<>>, NoDecl, NoTurn)
    ELSE LET ninth == l[9]
         IN  IF IsTurnpointByte(ninth)
             THEN LET r == CRecordTurnpoint_parse(l)
                  IN  Dispatch(r.status, r.err,
                               IF r.status = "Ok" THEN "CTurnpoint" ELSE "",
                               <<"CRecordTurnpoint">>, NoDecl, r.rec)
             ELSE LET r == CRecordDeclaration_parse(l)
                  IN  Dispatch(r.status, r.err,
                               IF r.status = "Ok" THEN "CDeclaration" ELSE "",
                               <<"CRecordDeclaration">>, r.rec, NoTurn)

\* an unknown tag reported as a failure
Record_parse_line_Strict(l, outcome) ==
    IF Len(l) = 0 THEN Dispatch("Panic", "", "", <<>>, NoDecl, NoTurn)
    ELSE CASE l[1] = "A" -> External("A", outcome)
           [] l[1] = "B" -> External("B", outcome)
           [] l[1] = "C" -> DispatchC(l)
           [] l[1] = "D" -> External("D", outcome)
           [] l[1] = "E" -> External("E", outcome)
           [] OTHER -> Dispatch("Err", "UnexpectedLeadingTag", "", <<>>, NoDecl, NoTurn)

\* an arm for b'I' added to the match
Record_parse_line_WithI(l, outcome) ==
    IF Len(l) = 0 THEN Dispatch("Panic", "", "", <<>>, NoDecl, NoTurn)
    ELSE CASE l[1] = "A" -> External("A", outcome)
           [] l[1] = "B" -> External("B", outcome)
           [] l[1] = "C" -> DispatchC(l)
           [] l[1] = "D" -> External("D", outcome)
           [] l[1] = "E" -> External("E", outcome)
           [] l[1] = "I" -> LET r == IRecord_parse(l)
                            IN  Dispatch(r.status, r.err,
                                         IF r.status = "Ok" THEN "I" ELSE "",
                                         <<"IRecord">>, NoDecl, NoTurn)
           [] OTHER -> Dispatch("Ok", "", "Unrecognised", <<>>, NoDecl, NoTurn)

\* Record::parse_line; outcome is what the decoder of an A, B, D or E line returns
Record_parse_line(l, outcome) ==
    IF Len(l) = 0 THEN Dispatch("Panic", "", "", <<>>, NoDecl, NoTurn)
    ELSE CASE l[1] = "A" -> External("A", outcome)
           [] l[1] = "B" -> External("B", outcome)
           [] l[1] = "C" -> DispatchC(l)
           [] l[1] = "D" -> External("D", outcome)
           [] l[1] = "E" -> External("E", outcome)
           [] OTHER -> Dispatch("Ok", "", "Unrecognised", <<>>, NoDecl, NoTurn)

---------------------------------------------------------------------------
(* Input lines *)

RECURSIVE SeqsUpTo(_, _)
SeqsUpTo(S, n) ==
    IF n = 0 THEN {<<>>}
    ELSE LET shorter == SeqsUpTo(S, n - 1)
         IN  shorter \cup {Append(s, x) : s \in shorter, x \in S}

RECURSIVE Flatten(_)
Flatten(ss) == IF Len(ss) = 0 THEN <<>> ELSE Head(ss) \o Flatten(Tail(ss))

Prefixes(S) == UNION {{SubSeq(l, 1, k) : k \in 0..Len(l)} : l \in S}

NameChars == {"F", " "}

Names == SeqsUpTo(NameChars, MaxNameLen)

\* [1,7)
DateFields ==
    {<<"2", "3", "0", "7", "1", "8">>,
     <<"0", "0", "0", "0", "0", "0">>,
     <<"2", "3", "x", "7", "1", "8">>}

\* [7,13); index 8 of the line is the second character of this field
TimeFields ==
    {<<"0", "9", "2", "0", "4", "4">>,
     <<"0", "N", "2", "0", "4", "4">>,
     <<"0", "S", "2", "0", "4", "4">>,
     <<"0", "9", "2", "0", "4", "x">>}

\* [13,19)
FlightDateFields ==
    {<<"0", "0", "0", "0", "0", "0">>,
     <<"0", "0", "0", "0", "+", "0">>}

\* [19,23)
TaskIdFields ==
    {<<"0", "0", "0", "2">>,
     <<"9", "9", "9", "9">>,
     <<"+", "0", "0", "2">>,
     <<"0", "0", "x", "2">>,
     <<"-", "0", "0", "2">>}

\* [23,25)
CountFields ==
    {<<"0", "4">>,
     <<"9", "9">>,
     <<"+", "4">>,
     <<"4", "x">>}

DeclLines ==
    {<<"C">> \o d \o t \o f \o i \o c \o n :
        d \in DateFields, t \in TimeFields, f \in FlightDateFields,
        i \in TaskIdFields, c \in CountFields, n \in Names}

\* [1,9)
LatFields ==
    {<<"5", "1", "5", "6", "0", "4", "0", "N">>,
     <<"5", "1", "5", "6", "0", "4", "0", "S">>,
     <<"5", "1", "5", "6", "0", "4", "0", "X">>,
     <<"5", "1", "x", "6", "0", "4", "0", "N">>}

\* [9,18)
LonFields ==
    {<<"0", "0", "0", "3", "8", "1", "2", "0", "W">>,
     <<"0", "0", "0", "3", "8", "1", "2", "0", "E">>,
     <<"0", "0", "0", "3", "8", "1", "2", "0", "N">>,
     <<"0", "0", "0", "3", "x", "1", "2", "0", "W">>}

TurnLines == {<<"C">> \o a \o o \o n : a \in LatFields, o \in LonFields, n \in Names}

ExtCountFields ==
    {<<"0", "0">>,
     <<"0", "1">>,
     <<"0", "2">>,
     <<"0", "3">>,
     <<"+", "1">>,
     <<"x", "1">>}

ExtFields ==
    {<<"3", "6", "3", "8", "F", "X", "A">>,
     <<"3", "9", "4", "1", "E", "N", "L">>,
     <<"4", "2", "4", "6", "T", "A", "S">>,
     <<"0", "x", "0", "9", "A", " ", "9">>}

ILines ==
    {<<"I">> \o c \o Flatten(es) \o n :
        c \in ExtCountFields, es \in SeqsUpTo(ExtFields, MaxExt), n \in {<<>>, <<"F">>}}

SampleLines ==
    {<<"C", "2", "3", "0", "7", "1", "8", "0", "9", "2", "0", "4", "4", "0", "0", "0", "0", "0", "0", "0", "0", "0", "2", "0", "4", "F">>,
     <<"C", "5", "1", "5", "6", "0", "4", "0", "N", "0", "0", "0", "3", "8", "1", "2", "0", "W", "F">>,
     <<"I", "0", "3", "3", "6", "3", "8", "F", "X", "A", "3", "9", "4", "1", "E", "N", "L", "4", "2", "4", "6", "T", "A", "S">>,
     <<"Z", "U", "N", "K", "N", "O", "W", "N">>,
     <<"A", "C", "I", "d", "S", "t", "r", "F", "o", "o">>}

OtherTags == {"A", "B", "D", "E", "I", "Z", "c", "0"}

OtherTagLines == {<<t>> \o Tail(l) : t \in OtherTags, l \in Prefixes(SampleLines) \ {<<>>}}

Lines == Prefixes(DeclLines \cup TurnLines) \cup ILines \cup Prefixes(SampleLines) \cup OtherTagLines

(* Constructed records: IRecord(ExtensionDefRecord { num_extensions, extensions }) *)

Extensions ==
    {[mnemonic |-> <<"F", "X", "A">>, start_byte |-> 36, end_byte |-> 38],
     [mnemonic |-> <<"E", "N", "L">>, start_byte |-> 39, end_byte |-> 41],
     [mnemonic |-> <<"T", "A", "S">>, start_byte |-> 42, end_byte |-> 46],
     [mnemonic |-> <<"A", " ", "9">>, start_byte |-> 0, end_byte |-> 99]}

IRecords ==
    {[num_extensions |-> n, extensions |-> es] :
        n \in 0..MaxExt, es \in SeqsUpTo(Extensions, MaxExt)}

---------------------------------------------------------------------------
(* The calls *)

NoResult == [status |-> "None"]

Init ==
    /\ op = "none"
    /\ result = NoResult
    /\ out = <<>>
    /\ \/ line \in Lines /\ irec = NoIRec /\ pc = "ready"
       \/ line = <<>> /\ irec \in IRecords /\ pc = "built"

CallParseLine ==
    /\ pc = "ready"
    /\ \E outcome \in ExternalOutcomes : result' = Record_parse_line(line, outcome)
    /\ op' = "Record::parse_line"
    /\ pc' = "done"
    /\ UNCHANGED <<line, irec, out>>

CallDeclarationParse ==
    /\ pc = "ready"
    /\ result' = CRecordDeclaration_parse(line)
    /\ op' = "CRecordDeclaration::parse"
    /\ pc' = "done"
    /\ UNCHANGED <<line, irec, out>>

CallTurnpointParse ==
    /\ pc = "ready"
    /\ result' = CRecordTurnpoint_parse(line)
    /\ op' = "CRecordTurnpoint::parse"
    /\ pc' = "done"
    /\ UNCHANGED <<line, irec, out>>

CallIRecordParse ==
    /\ pc = "ready"
    /\ result' = IRecord_parse(line)
    /\ op' = "IRecord::parse"
    /\ irec' = result'.rec
    /\ pc' = IF result'.status = "Ok" THEN "parsed" ELSE "done"
    /\ UNCHANGED <<line, out>>

\* format!("{}", record) on a parsed or a constructed record
CallIRecordFmt ==
    /\ pc \in {"parsed", "built"}
    /\ out' = IRecord_fmt(irec)
    /\ pc' = "formatted"
    /\ UNCHANGED <<line, irec, op, result>>

Next ==
    \/ CallParseLine
    \/ CallDeclarationParse
    \/ CallTurnpointParse
    \/ CallIRecordParse
    \/ CallIRecordFmt

Spec == Init /\ [][Next]_vars

---------------------------------------------------------------------------
(* Properties *)

Hemispheres == {"N", "S"}

RecognisedTags == {"A", "B", "C", "D", "E"}

\* the characters at 0-based offsets [a, b) are all decimal digits
DigitsAt(l, a, b) == \A k \in (a + 1)..b : IsDigit(l[k])

\* the bytes of l from 0-based offset a to the end
Trailing(l, a) == [k \in 1..(Len(l) - a) |-> l[a + k]]

\* a declaration line in the layout of the format: tag, 24 digits, free text
ValidDeclLine(l) == Len(l) >= DeclMinLen /\ l[1] = "C" /\ DigitsAt(l, 1, 25)

\* a turnpoint line in the layout of the format
ValidTurnLine(l) ==
    /\ Len(l) >= TurnMinLen
    /\ l[1] = "C"
    /\ DigitsAt(l, 1, 8)
    /\ l[9] \in Hemispheres
    /\ DigitsAt(l, 9, 17)
    /\ l[18] \in {"E", "W"}

\* the value of a digit string as a sum of digit times power of ten, a leading
\* '+' standing for nothing
RECURSIVE Pow10(_)
Pow10(n) == IF n = 0 THEN 1 ELSE 10 * Pow10(n - 1)

RECURSIVE SumOver(_, _)
SumOver(f, n) == IF n = 0 THEN 0 ELSE f[n] + SumOver(f, n - 1)

DecimalValueOf(s) ==
    SumOver([k \in 1..Len(s) |->
                IF s[k] = "+" THEN 0 ELSE DigitVal(s[k]) * Pow10(Len(s) - k)],
            Len(s))

Dispatched == pc = "done" /\ op = "Record::parse_line"

DeclParsed == pc = "done" /\ op = "CRecordDeclaration::parse"

TurnParsed == pc = "done" /\ op = "CRecordTurnpoint::parse"

DeclarationSample == <<"C", "2", "3", "0", "7", "1", "8", "0", "9", "2", "0", "4", "4", "0", "0", "0", "0", "0", "0", "0", "0", "0", "2", "0", "4">>

ExtensionSample == <<"I", "0", "3", "3", "6", "3", "8", "F", "X", "A", "3", "9", "4", "1", "E", "N", "L", "4", "2", "4", "6", "T", "A", "S">>

\* C1: for a line tagged 'C' that holds the byte at index 8, parse_line invokes
\* exactly one decoder, CRecordTurnpoint::parse iff that byte is 'N' or 'S' and
\* CRecordDeclaration::parse otherwise; it returns that decoder's outcome (no
\* second attempt), so the record is a CTurnpoint iff the decoder succeeded and
\* the byte is 'N' or 'S', a CDeclaration iff it succeeded and the byte is
\* neither, and a valid line of either layout yields the record of its kind.
C1_DispatchByNinthByte ==
    (Dispatched /\ Len(line) >= 9 /\ line[1] = "C") =>
        /\ result.invoked = IF line[9] \in Hemispheres
                            THEN <<"CRecordTurnpoint">>
                            ELSE <<"CRecordDeclaration">>
        /\ result.variant = "CTurnpoint" <=>
               (result.status = "Ok" /\ line[9] \in Hemispheres)
        /\ result.variant = "CDeclaration" <=>
               (result.status = "Ok" /\ line[9] \notin Hemispheres)
        /\ ValidTurnLine(line) => result.variant = "CTurnpoint"
        /\ ValidDeclLine(line) => result.variant = "CDeclaration"
        /\ (line[9] \in Hemispheres /\ ~ValidTurnLine(line)) => result.status # "Ok"

C1_Witness ==
    /\ Dispatched
    /\ ValidTurnLine(line)
    /\ line[9] = "S"
    /\ result.variant = "CTurnpoint"
    /\ result.invoked = <<"CRecordTurnpoint">>

\* C2: a non-empty line whose first byte is none of A, B, C, D, E makes
\* parse_line return Ok(Record::Unrecognised), whatever follows the first byte.
C2_UnknownTagIsUnrecognised ==
    (Dispatched /\ Len(line) > 0 /\ line[1] \notin RecognisedTags) =>
        (result.status = "Ok" /\ result.variant = "Unrecognised")

C2_Witness ==
    /\ Dispatched
    /\ Len(line) > 1
    /\ line[1] = "Z"
    /\ result.status = "Ok"
    /\ result.variant = "Unrecognised"

\* C3: CRecordDeclaration::parse succeeds on every valid declaration line, and
\* whenever it succeeds task_name is None iff the line has exactly 25 bytes and
\* otherwise Some of exactly the bytes from offset 25 on; CRecordTurnpoint::parse
\* does the same with turnpoint_name at offset 18.
C3_OptionalNamePresence ==
    /\ (DeclParsed /\ ValidDeclLine(line)) => result.status = "Ok"
    /\ (DeclParsed /\ result.status = "Ok") =>
           /\ ~result.rec.task_name.some <=> Len(line) = DeclMinLen
           /\ result.rec.task_name.val = Trailing(line, DeclMinLen)
    /\ (TurnParsed /\ ValidTurnLine(line)) => result.status = "Ok"
    /\ (TurnParsed /\ result.status = "Ok") =>
           /\ ~result.rec.turnpoint_name.some <=> Len(line) = TurnMinLen
           /\ result.rec.turnpoint_name.val = Trailing(line, TurnMinLen)

C3_Witness ==
    /\ DeclParsed
    /\ ValidDeclLine(line)
    /\ Len(line) = DeclMinLen + MaxNameLen
    /\ result.status = "Ok"
    /\ result.rec.task_name = SomeStr(Trailing(line, DeclMinLen))

\* C4 (as claimed): a line of exactly the minimum length decodes with no
\* trailing field, and a line one byte shorter makes the decoder return the
\* failure value LineTooShort.
C4_ShortLineIsLineTooShort ==
    /\ (DeclParsed /\ ValidDeclLine(line) /\ Len(line) = DeclMinLen) =>
           (result.status = "Ok" /\ ~result.rec.task_name.some)
    /\ (TurnParsed /\ ValidTurnLine(line) /\ Len(line) = TurnMinLen) =>
           (result.status = "Ok" /\ ~result.rec.turnpoint_name.some)
    /\ (DeclParsed /\ Len(line) = DeclMinLen - 1 /\ line[1] = "C") =>
           (result.status = "Err" /\ result.err = "LineTooShort")
    /\ (TurnParsed /\ Len(line) = TurnMinLen - 1 /\ line[1] = "C") =>
           (result.status = "Err" /\ result.err = "LineTooShort")

\* C5 (as claimed): parse_line returns a value for every line and never
\* aborts; the empty line yields a failure value.  Lines handed to the
\* decoders of a_record, b_record, d_record and e_record are left out, so
\* that only the code of mod.rs and c_record.rs decides.
C5_ParseLineNeverAborts ==
    (Dispatched /\ (Len(line) = 0 \/ line[1] \notin {"A", "B", "D", "E"})) =>
        /\ result.status \in {"Ok", "Err"}
        /\ Len(line) = 0 => result.status = "Err"

\* C6 (as claimed): CRecordDeclaration::parse does not succeed when [19,23) is
\* not four decimal digits or [23,25) is not two decimal digits.
C6_NonDigitFieldRejected ==
    (DeclParsed /\ Len(line) >= DeclMinLen
        /\ ~(DigitsAt(line, 19, 23) /\ DigitsAt(line, 23, 25))) =>
        result.status # "Ok"

\* C7: whenever CRecordDeclaration::parse succeeds, task_id is the decimal value
\* of [19,23) and lies in 0..9999, turnpoint_count is the decimal value of
\* [23,25) and lies in 0..99, and date, time and flight_date are the primitive
\* parses of [1,7), [7,13) and [13,19); "C230718092044000000000204" gives date
\* 23.07.2018, time 09:20:44, flight date 00.00.2000, task id 2, count 4.
C7_DeclarationFields ==
    (DeclParsed /\ result.status = "Ok") =>
        /\ result.rec.task_id = DecimalValueOf(Trailing(SubSeq(line, 1, 23), 19))
        /\ result.rec.task_id \in 0..9999
        /\ result.rec.turnpoint_count = DecimalValueOf(Trailing(SubSeq(line, 1, 25), 23))
        /\ result.rec.turnpoint_count \in 0..99
        /\ result.rec.date = Date_parse(Trailing(SubSeq(line, 1, 7), 1)).val
        /\ result.rec.time = Time_parse(Trailing(SubSeq(line, 1, 13), 7)).val
        /\ result.rec.flight_date = Date_parse(Trailing(SubSeq(line, 1, 19), 13)).val
        /\ line = DeclarationSample =>
               result.rec = [date |-> [day |-> 23, month |-> 7, year |-> 2018],
                             time |-> [hours |-> 9, minutes |-> 20, seconds |-> 44],
                             flight_date |-> [day |-> 0, month |-> 0, year |-> 2000],
                             task_id |-> 2, turnpoint_count |-> 4,
                             task_name |-> NoneStr]

C7_Witness ==
    /\ DeclParsed
    /\ result.status = "Ok"
    /\ line = DeclarationSample
    /\ result.rec.task_id = 2
    /\ result.rec.turnpoint_count = 4

\* an extension-definition line: tag, two count digits, then exactly count
\* sub-fields of two start digits, two end digits and a three-character name
WellFormedExtensionLine(l) ==
    /\ Len(l) >= 3
    /\ l[1] = "I"
    /\ DigitsAt(l, 1, 3)
    /\ Len(l) = 3 + 7 * DecimalValueOf(Trailing(SubSeq(l, 1, 3), 1))
    /\ \A k \in 0..((Len(l) - 3) \div 7 - 1) : DigitsAt(l, 3 + 7 * k, 7 + 7 * k)

\* C8: IRecord::parse succeeds on every well-formed extension-definition line,
\* and formatting the parsed record gives back the line byte for byte.
C8_ParseThenFormatRoundTrip ==
    (op = "IRecord::parse" /\ WellFormedExtensionLine(line)) =>
        /\ result.status = "Ok"
        /\ pc = "formatted" => out = line

C8_Witness ==
    /\ op = "IRecord::parse"
    /\ pc = "formatted"
    /\ line = ExtensionSample
    /\ out = ExtensionSample

\* C9: the formatted IRecord is 'I', the count as two zero-padded digits, then
\* for the k-th extension of the sequence, at offset 3 + 7(k-1), its start as
\* two zero-padded digits, its end as two zero-padded digits and its name.
C9_FormatLayout ==
    pc = "formatted" =>
        /\ Len(out) = 3 + 7 * Len(irec.extensions)
        /\ out[1] = "I"
        /\ DigitsAt(out, 1, 3)
        /\ DecimalValueOf(Trailing(SubSeq(out, 1, 3), 1)) = irec.num_extensions
        /\ \A k \in 1..Len(irec.extensions) :
               LET at == 3 + 7 * (k - 1)
                   e == irec.extensions[k]
               IN  /\ DigitsAt(out, at, at + 4)
                   /\ DecimalValueOf(Trailing(SubSeq(out, 1, at + 2), at)) = e.start_byte
                   /\ DecimalValueOf(Trailing(SubSeq(out, 1, at + 4), at + 2)) = e.end_byte
                   /\ Trailing(SubSeq(out, 1, at + 7), at + 4) = e.mnemonic

C9_Witness ==
    /\ pc = "formatted"
    /\ op = "none"
    /\ irec.num_extensions = 3
    /\ Len(irec.extensions) = 3
    /\ irec.extensions[1].mnemonic = <<"F", "X", "A">>
    /\ irec.extensions[2].mnemonic = <<"E", "N", "L">>
    /\ irec.extensions[3].mnemonic = <<"T", "A", "S">>
    /\ out = ExtensionSample

\* C10: parse_line invokes a decoder only for a line that begins with A, B, C,
\* D or E, and does so for each of them (for C once the byte at index 8 is
\* there); a line beginning with 'I' yields Unrecognised with no decoder
\* invoked, also when IRecord::parse decodes it; no variant of Record carries
\* an extension-definition record.
C10_DispatchedTags ==
    /\ "I" \notin RecordVariants
    /\ Dispatched =>
        /\ result.invoked # <<>> => line[1] \in RecognisedTags
        /\ (Len(line) > 0 /\ line[1] \in RecognisedTags \ {"C"}) =>
               result.invoked = <<line[1]>>
        /\ (Len(line) >= 9 /\ line[1] = "C") => Len(result.invoked) = 1
        /\ (Len(line) > 0 /\ line[1] = "I") =>
               /\ result.invoked = <<>>
               /\ result.status = "Ok"
               /\ result.variant = "Unrecognised"
        /\ result.status = "Ok" => result.variant \in RecordVariants

C10_Witness ==
    /\ Dispatched
    /\ line = ExtensionSample
    /\ IRecord_parse(line).status = "Ok"
    /\ result.variant = "Unrecognised"
    /\ result.invoked = <<>>

====
